---- MODULE Spec2Model ----
(***************************************************************************)
(* The L2 proposer of crates/l2/proposer/mod.rs: the supervisor            *)
(* (start_proposer), the block production loop (Proposer::start), block    *)
(* production against the engine (produce_block), and the two settlement   *)
(* submissions (send_commitment, send_proof) built on                      *)
(* send_transaction_with_calldata.  The engine, the settlement RPC and the *)
(* two collaborator tasks are the environment: every call can fail or      *)
(* answer with any value of its small domain.                              *)
(***************************************************************************)
EXTENDS Integers, Sequences, FiniteSets, TLC

\* Bounds of the model.
MaxHash == 2
MaxCycles == 2
MaxPolls == 1

\* Filter ids are drawn from 1 .. MaxFilterId, the clock runs from 0 to MaxTime.
MaxFilterId == 2

MaxTime == 1

\* Proofs given to the proof calldata builder have up to MaxProofLen bytes.
MaxProofLen == 33

\* H256 values are the naturals 0..MaxHash; H256::zero() is 0.
Hashes == 0 .. MaxHash

H256_zero == 0

\* Option::None for hashes, nonces, ids.
None == -1

TX_GAS_COST == 21000

COMMIT_FUNCTION_SELECTOR == <<241, 79, 203, 200>>

VERIFY_FUNCTION_SELECTOR == <<142, 118, 10, 254>>

(***************************************************************************)
(* Pure helpers: byte encodings.                                           *)
(***************************************************************************)

\* The k low-order bytes of n, big-endian, for 0 <= n < 2^31: the bytes above
\* the fourth are zero.
BigEndian(n, k) ==
    [i \in 1 .. k |-> IF k - i > 3 THEN 0 ELSE (n \div (256 ^ (k - i))) % 256]

Zeros(k) == [i \in 1 .. k |-> 0]

\* H256::from_low_u64_be(n): 24 zero bytes, then the 8 big-endian bytes of n.
from_low_u64_be(n) == Zeros(24) \o BigEndian(n, 8)

\* The 32 bytes of an H256 held as a natural (commitment.0).
H256Bytes(h) == BigEndian(h, 32)

\* Stand-in for keccak256: a position-weighted sum of the bytes, kept below
\* 2^16. keccakOfRange is the sum over bytes[lo .. hi], by halving.
RECURSIVE keccakOfRange(_, _, _)
keccakOfRange(bytes, lo, hi) ==
    IF lo > hi THEN 0
    ELSE IF lo = hi THEN ((31 * lo + 1) * bytes[lo]) % 65521
    ELSE LET mid == (lo + hi) \div 2
         IN  (keccakOfRange(bytes, lo, mid) + keccakOfRange(bytes, mid + 1, hi)) % 65521

keccak(bytes) == (7 + keccakOfRange(bytes, 1, Len(bytes))) % 65521

\* RLP of a scalar below 128: zero is the empty string (0x80), else the byte.
RLPScalar(n) == IF n = 0 THEN <<128>> ELSE <<n>>

\* block.encode_to_vec(): the RLP list [parent_hash (32-byte string), number].
encode_to_vec(block) ==
    LET payload == <<160>> \o H256Bytes(block.parent_hash) \o RLPScalar(block.number)
    IN  <<192 + Len(payload)>> \o payload

\* The calldata send_commitment builds.
\* Mutant: the buffer's capacity of 68 bytes is filled up with zeros.
CommitCalldata_Filled(commitment) ==
    COMMIT_FUNCTION_SELECTOR \o H256Bytes(commitment) \o Zeros(32)

CommitCalldata(commitment) == COMMIT_FUNCTION_SELECTOR \o H256Bytes(commitment)

\* The calldata send_proof builds.
\* Mutant: the proof bytes are not padded.
ProofCalldata_Unpadded(block_proof) ==
    VERIFY_FUNCTION_SELECTOR \o from_low_u64_be(32)
        \o from_low_u64_be(Len(block_proof)) \o block_proof

ProofCalldata(block_proof) ==
    LET body == VERIFY_FUNCTION_SELECTOR \o from_low_u64_be(32)
                \o from_low_u64_be(Len(block_proof)) \o block_proof
        leading_zeros == 32 - (Len(body) % 32)
    IN  body \o Zeros(leading_zeros)

\* ForkChoiceState built by produce_block: all three fields are the head.
ForkChoiceState(head) ==
    [head_block_hash |-> head, safe_block_hash |-> head, finalized_block_hash |-> head]

NoForkChoiceState == ForkChoiceState(None)

NoBlock == [parent_hash |-> None, number |-> None]

\* The block a hash names: block h is the child of block h - 1, at height h
\* (no block is ever stored under the zero hash).
BlockOf(h) == [parent_hash |-> IF h = 0 THEN 0 ELSE h - 1, number |-> h]

NoResult == [state |-> "none", hash |-> None]

NoTx == [max_fee_per_gas |-> None, nonce |-> None, chain_id |-> None, gas_limit |-> None]

NoCycle ==
    [fcs |-> NoForkChoiceState, result |-> NoResult, trace |-> <<>>, broadcasts |-> <<>>]

Tasks == {"l1_watcher", "prover_server", "proposer"}

(***************************************************************************)
(* State.                                                                  *)
(***************************************************************************)
VARIABLES
    pc,                \* position of the production task
    txpc,              \* position inside send_commitment / send_proof
    head_block_hash,   \* the loop variable of Proposer::start
    fork_choice_state, \* the state sent in the last forkchoice-update
    payload_id,        \* payload id of the last forkchoice response
    latest_valid_hash, \* latest_valid_hash of the last new-payload response
    produce_result,    \* what produce_block returned in the current cycle
    block,             \* the block read from storage in the current cycle
    commitment,        \* keccak(block.encode_to_vec())
    calldata,          \* calldata of the submission under way
    tx,                \* the transaction being built
    tx_hash,           \* hash of the transaction being polled
    polls,             \* receipt polls answered "no receipt" for that transaction
    trace,             \* the events of the current cycle, in order
    broadcasts,        \* the transactions broadcast in the current cycle
    prev,              \* the previous cycle
    cycle,             \* cycles started
    start_result,      \* what Proposer::start returned
    store,             \* local block storage: hash -> block
    l1,                \* the settlement chain: account nonce, pending and included txs
    task,              \* status of the three spawned tasks
    joined,            \* tasks whose normal completion try_join! has taken
    sup,               \* status of start_proposer
    active_filters,    \* the RPC server's filter map: id -> (timestamp, filter)
    poisoned,          \* whether the map's mutex is poisoned
    now,               \* the monotonic clock read by Instant::now() and elapsed()
    response,          \* the last filter operation and what it returned
    cleaned,           \* per id: whether the cleanup removed it, and a later install
    lock,              \* the holder of the filter map's mutex
    threads,           \* the handlers running concurrently on the map
    removals,          \* per id: how often the filter now or last under it was removed
    encoded            \* a calldata builder's input and output

proposerVars == <<pc, txpc, head_block_hash, fork_choice_state, payload_id, latest_valid_hash,
          produce_result, block, commitment, calldata, tx, tx_hash, polls, trace,
          broadcasts, prev, cycle, start_result, store, l1, task, joined, sup>>

lockVars == <<lock, threads, removals>>

filterVars == <<active_filters, poisoned, now, response, cleaned, lockVars>>

vars == <<proposerVars, filterVars, encoded>>

loopVars == <<head_block_hash, fork_choice_state, payload_id, latest_valid_hash,
              produce_result, block, commitment, prev, cycle>>

txVars == <<calldata, tx, tx_hash, polls, broadcasts>>

supVars == <<joined, sup>>

InitProposer ==
    /\ pc = "init"
    /\ txpc = "none"
    /\ head_block_hash = None
    /\ fork_choice_state = NoForkChoiceState
    /\ payload_id = None
    /\ latest_valid_hash = None
    /\ produce_result = NoResult
    /\ block = NoBlock
    /\ commitment = None
    /\ calldata = <<>>
    /\ tx = NoTx
    /\ tx_hash = None
    /\ polls = 0
    /\ trace = <<>>
    /\ broadcasts = <<>>
    /\ prev = NoCycle
    /\ cycle = 0
    /\ start_result = "running"
    /\ \E h0 \in Hashes \ {H256_zero} :
          store = [h \in Hashes |-> IF h = h0 THEN BlockOf(h) ELSE NoBlock]
    /\ l1 = [nonce |-> 0, pending |-> {}, included |-> {}, sent |-> 0]
    /\ task = [t \in Tasks |-> "running"]
    /\ joined = {}
    /\ sup = "waiting"

(***************************************************************************)
(* The RPC server's log filters (eth/filter.rs): values.                   *)
(***************************************************************************)

\* The u64 ids random() can give.
FilterIds == 1 .. MaxFilterId

\* BlockIdentifier: a block number or a tag.
Number(n) == [tag |-> "number", number |-> n]

Latest == [tag |-> "latest", number |-> None]

BlockNumbers == {1, 2}

BlockIdentifiers == {Number(n) : n \in BlockNumbers} \cup {Latest}

\* LogsFilter, the request_data of eth_newFilter: its block range.
LogsFilters == [from_block : BlockIdentifiers, to_block : BlockIdentifiers]

NoLogsFilter == [from_block |-> Number(None), to_block |-> Number(None)]

\* An id without an entry in the map.
NoEntry == [timestamp |-> None, filter |-> NoLogsFilter]

\* HashMap::new().
EmptyFilters == [id \in FilterIds |-> NoEntry]

\* The last handler that ran: its arguments and what it returned.
Response(op, id, request_data, filter_duration, result) ==
    [op |-> op, id |-> id, request_data |-> request_data,
     filter_duration |-> filter_duration, result |-> result]

NoResponse == Response("none", None, NoLogsFilter, None, "none")

NoEncoding == [fn |-> "none", commitment |-> None, proof |-> <<>>, calldata |-> <<>>]

\* The threads that work on the map at the same time: two RPC requests being
\* served and the runtime's cleanup job.
Threads == {"rpc_1", "rpc_2", "cleanup"}

\* A thread that is in no handler.
Idle == [pc |-> "idle", op |-> "none", id |-> None, timestamp |-> None, found |-> "none"]

\* The filter map is created empty; no holder of its lock has panicked.
InitFilters ==
    /\ active_filters = EmptyFilters
    /\ poisoned = FALSE
    /\ now = 0
    /\ response = NoResponse
    /\ cleaned = [id \in FilterIds |-> "no"]
    /\ lock = "free"
    /\ threads = [t \in Threads |-> Idle]
    /\ removals = [id \in FilterIds |-> 0]

Init ==
    /\ InitProposer
    /\ InitFilters
    /\ encoded = NoEncoding

Emit(e) == trace' = Append(trace, e)

\* The events the settlement layer, the engine and the store see of a cycle.
VisibleEvents ==
    {"forkchoice_updated", "get_payload", "new_payload", "get_block_by_hash",
     "commit_broadcast", "commit_receipt", "proof_broadcast", "proof_receipt", "sleep"}

IsVisible(e) == e \in VisibleEvents

Visible(t) == SelectSeq(t, IsVisible)


(***************************************************************************)
(* start_proposer's spawned production task, up to Proposer::start.        *)
(***************************************************************************)

\* The task's setup: the configuration and the head hash are read with
\* expect(); a failure panics the task, else start() is entered with the
\* canonical hash of the latest block in the store.
ProposerInit ==
    /\ pc = "init"
    /\ \E ok \in BOOLEAN :
          IF ok
          THEN /\ \E h \in Hashes : store[h] # NoBlock /\ head_block_hash' = h
               /\ pc' = "produce_block"
               /\ task' = task
          ELSE /\ pc' = "panicked"
               /\ task' = [task EXCEPT !["proposer"] = "panicked"]
               /\ head_block_hash' = head_block_hash
    /\ UNCHANGED <<txpc, fork_choice_state, payload_id, latest_valid_hash, produce_result,
                   block, commitment, prev, cycle, trace, start_result, store, l1>>
    /\ UNCHANGED txVars
    /\ UNCHANGED supVars
    /\ UNCHANGED filterVars
    /\ UNCHANGED encoded

\* Mutant: the error of produce_block is swallowed and the loop starts over.
StartOnProduceErr_Retry ==
    /\ pc' = "produce_block"
    /\ start_result' = start_result

\* `?` on produce_block's result in start: the error leaves start.
StartOnProduceErr ==
    /\ pc' = "returned"
    /\ start_result' = "FailedToProduceBlock"

\* produce_block returned Err(..).
ProduceBlockErr ==
    /\ produce_result' = [state |-> "err", hash |-> None]
    /\ StartOnProduceErr
    /\ head_block_hash' = head_block_hash

\* produce_block, first await: the fork choice state and payload attributes are
\* built and engine_forkchoice_updated_v3 is called. A new cycle starts here.
ForkchoiceUpdated ==
    /\ pc = "produce_block"
    /\ cycle < MaxCycles
    /\ cycle' = cycle + 1
    /\ prev' = [fcs |-> fork_choice_state, result |-> produce_result,
                trace |-> Visible(trace), broadcasts |-> broadcasts]
    /\ broadcasts' = <<>>
    /\ block' = NoBlock
    /\ commitment' = None
    /\ latest_valid_hash' = None
    /\ \E resp \in {"time_err", "err", "no_payload_id", "ok"} :
          IF resp = "time_err"
          THEN /\ trace' = <<>>
               /\ fork_choice_state' = fork_choice_state
               /\ payload_id' = None
               /\ ProduceBlockErr
          ELSE /\ trace' = <<"forkchoice_updated">>
               /\ fork_choice_state' = ForkChoiceState(head_block_hash)
               /\ IF resp = "ok"
                  THEN /\ payload_id' = 1
                       /\ pc' = "get_payload"
                       /\ produce_result' = NoResult
                       /\ UNCHANGED <<head_block_hash, start_result>>
                  ELSE /\ payload_id' = None
                       /\ ProduceBlockErr
    /\ UNCHANGED <<txpc, calldata, tx, tx_hash, polls, store, l1, task>>
    /\ UNCHANGED supVars
    /\ UNCHANGED filterVars
    /\ UNCHANGED encoded

\* produce_block, second await: engine_get_payload_v3(payload_id).
GetPayload ==
    /\ pc = "get_payload"
    /\ Emit("get_payload")
    /\ \E ok \in BOOLEAN :
          IF ok
          THEN /\ pc' = "new_payload"
               /\ UNCHANGED <<produce_result, head_block_hash, start_result>>
          ELSE ProduceBlockErr
    /\ UNCHANGED <<txpc, fork_choice_state, payload_id, latest_valid_hash, block,
                   commitment, prev, cycle, store, l1, task>>
    /\ UNCHANGED txVars
    /\ UNCHANGED supVars
    /\ UNCHANGED filterVars
    /\ UNCHANGED encoded

\* Mutant: produce_block turns a zero latest_valid_hash into an error.
ProduceBlockReturn_ErrOnZero(h) ==
    IF h = H256_zero THEN [state |-> "err", hash |-> None] ELSE [state |-> "ok", hash |-> h]

\* What produce_block returns once new-payload answered latest_valid_hash = Some(h).
ProduceBlockReturn(h) == [state |-> "ok", hash |-> h]

\* Mutant: the zero test is missing, every Ok(h) goes on to the storage read.
StartAfterProduce_NoZeroTest(h) ==
    /\ head_block_hash' = h
    /\ pc' = "get_block"

\* start, after produce_block returned Ok(h): the head is assigned, then tested
\* against zero; zero continues the loop, anything else goes on to storage.
StartAfterProduce(h) ==
    /\ head_block_hash' = h
    /\ pc' = IF h = H256_zero THEN "produce_block" ELSE "get_block"

\* produce_block, third await: engine_new_payload_v3, then the return to start.
\* The engine that accepts the payload may or may not have the block in the store.
NewPayload ==
    /\ pc = "new_payload"
    /\ Emit("new_payload")
    /\ \E resp \in {"err", "no_latest_valid_hash", "ok"} :
          IF resp = "ok"
          THEN \E h \in Hashes, stored \in BOOLEAN :
                  /\ latest_valid_hash' = h
                  /\ store' = IF stored /\ h # H256_zero /\ store[h] = NoBlock
                              THEN [store EXCEPT ![h] = BlockOf(h)]
                              ELSE store
                  /\ produce_result' = ProduceBlockReturn(h)
                  /\ IF produce_result'.state = "ok"
                     THEN /\ StartAfterProduce(produce_result'.hash)
                          /\ start_result' = start_result
                     ELSE /\ StartOnProduceErr
                          /\ head_block_hash' = head_block_hash
          ELSE /\ latest_valid_hash' = None
               /\ store' = store
               /\ ProduceBlockErr
    /\ UNCHANGED <<txpc, fork_choice_state, payload_id, block, commitment, prev, cycle,
                   l1, task>>
    /\ UNCHANGED txVars
    /\ UNCHANGED supVars
    /\ UNCHANGED filterVars
    /\ UNCHANGED encoded

\* Mutant: a failed or empty storage read only skips the cycle.
StartOnStorageErr_Skip(e) ==
    /\ pc' = "produce_block"
    /\ start_result' = start_result
    /\ UNCHANGED <<txpc, block, commitment, calldata>>

\* `?` on the storage read in start: the error leaves start.
StartOnStorageErr(e) ==
    /\ pc' = "returned"
    /\ start_result' = e
    /\ UNCHANGED <<txpc, block, commitment, calldata>>

\* Mutant: the block's hash is committed instead of the hash of its encoding.
StartCommit_BlockHash(b) ==
    /\ block' = b
    /\ commitment' = head_block_hash
    /\ calldata' = CommitCalldata(commitment')
    /\ pc' = "send_commitment"
    /\ txpc' = "get_gas_price"
    /\ start_result' = start_result

\* start: the commitment of the block read, then send_commitment up to its
\* first await (the calldata is built, the submission begins).
StartCommit(b) ==
    /\ block' = b
    /\ commitment' = keccak(encode_to_vec(b))
    /\ calldata' = CommitCalldata(commitment')
    /\ pc' = "send_commitment"
    /\ txpc' = "get_gas_price"
    /\ start_result' = start_result

\* start: store.get_block_by_hash(head_block_hash).
GetBlockByHash ==
    /\ pc = "get_block"
    /\ Emit("get_block_by_hash")
    /\ \E ok \in BOOLEAN :
          IF ~ok
          THEN StartOnStorageErr("FailedToRetrieveBlockFromStorage")
          ELSE IF store[head_block_hash] = NoBlock
               THEN StartOnStorageErr("FailedToProduceBlock")
               ELSE StartCommit(store[head_block_hash])
    /\ UNCHANGED <<head_block_hash, fork_choice_state, payload_id, latest_valid_hash,
                   produce_result, prev, cycle, tx, tx_hash, polls, broadcasts, store,
                   l1, task>>
    /\ UNCHANGED supVars
    /\ UNCHANGED filterVars
    /\ UNCHANGED encoded

\* .expect("Proposer::start") in the spawned task: start only ever returns Err.
ExpectStart ==
    /\ pc = "returned"
    /\ pc' = "panicked"
    /\ task' = [task EXCEPT !["proposer"] = "panicked"]
    /\ UNCHANGED <<txpc, trace, start_result, store, l1>>
    /\ UNCHANGED loopVars
    /\ UNCHANGED txVars
    /\ UNCHANGED supVars
    /\ UNCHANGED filterVars
    /\ UNCHANGED encoded


(***************************************************************************)
(* send_commitment / send_proof over send_transaction_with_calldata.       *)
(***************************************************************************)

Submitting == pc \in {"send_commitment", "send_proof"}

Kind == IF pc = "send_commitment" THEN "commit" ELSE "proof"

\* Mutant: a failed submission is logged and the loop starts over.
StartOnSubmitErr_Continue(events) ==
    /\ trace' = trace \o events \o <<"error_manual_intervention">>
    /\ pc' = "produce_block"
    /\ txpc' = "none"
    /\ task' = task

\* start's Err arms for send_commitment and send_proof: error!(".. Manual
\* intervention required ..") and then panic!, which ends the task.
StartOnSubmitErr(events) ==
    /\ trace' = trace \o events \o <<"error_manual_intervention">>
    /\ pc' = "panicked"
    /\ txpc' = "none"
    /\ task' = [task EXCEPT !["proposer"] = "panicked"]

\* Mutant: the nonce is not read, the chain id is asked for next.
GetGasPrice_SkipNonce ==
    /\ Submitting /\ txpc = "get_gas_price"
    /\ \E ok \in BOOLEAN :
          IF ok
          THEN /\ tx' = [NoTx EXCEPT !.max_fee_per_gas = 1]
               /\ txpc' = "get_chain_id"
               /\ Emit("get_gas_price")
               /\ UNCHANGED <<pc, task>>
          ELSE /\ StartOnSubmitErr(<<"get_gas_price">>)
               /\ tx' = tx
    /\ UNCHANGED <<calldata, tx_hash, polls, broadcasts, start_result, store, l1>>
    /\ UNCHANGED loopVars
    /\ UNCHANGED supVars
    /\ UNCHANGED filterVars
    /\ UNCHANGED encoded

\* send_transaction_with_calldata: max_fee_per_gas from get_gas_price().
GetGasPrice ==
    /\ Submitting /\ txpc = "get_gas_price"
    /\ \E ok \in BOOLEAN :
          IF ok
          THEN /\ tx' = [NoTx EXCEPT !.max_fee_per_gas = 1]
               /\ txpc' = "get_nonce"
               /\ Emit("get_gas_price")
               /\ UNCHANGED <<pc, task>>
          ELSE /\ StartOnSubmitErr(<<"get_gas_price">>)
               /\ tx' = tx
    /\ UNCHANGED <<calldata, tx_hash, polls, broadcasts, start_result, store, l1>>
    /\ UNCHANGED loopVars
    /\ UNCHANGED supVars
    /\ UNCHANGED filterVars
    /\ UNCHANGED encoded

\* Mutant: the nonce of the cycle's earlier submission is used again.
FetchedNonce_Cached == IF broadcasts = <<>> THEN l1.nonce ELSE broadcasts[1].nonce

\* What get_nonce(l1_address) answers: the account nonce of the settlement chain.
FetchedNonce == l1.nonce

\* send_transaction_with_calldata: nonce from get_nonce(l1_address).
GetNonce ==
    /\ Submitting /\ txpc = "get_nonce"
    /\ \E ok \in BOOLEAN :
          IF ok
          THEN /\ tx' = [tx EXCEPT !.nonce = FetchedNonce]
               /\ txpc' = "get_chain_id"
               /\ Emit("get_nonce")
               /\ UNCHANGED <<pc, task>>
          ELSE /\ StartOnSubmitErr(<<"get_nonce">>)
               /\ tx' = tx
    /\ UNCHANGED <<calldata, tx_hash, polls, broadcasts, start_result, store, l1>>
    /\ UNCHANGED loopVars
    /\ UNCHANGED supVars
    /\ UNCHANGED filterVars
    /\ UNCHANGED encoded

\* send_transaction_with_calldata: chain_id from get_chain_id().
GetChainId ==
    /\ Submitting /\ txpc = "get_chain_id"
    /\ \E ok \in BOOLEAN :
          IF ok
          THEN /\ tx' = [tx EXCEPT !.chain_id = 1]
               /\ txpc' = "estimate_gas"
               /\ Emit("get_chain_id")
               /\ UNCHANGED <<pc, task>>
          ELSE /\ StartOnSubmitErr(<<"get_chain_id">>)
               /\ tx' = tx
    /\ UNCHANGED <<calldata, tx_hash, polls, broadcasts, start_result, store, l1>>
    /\ UNCHANGED loopVars
    /\ UNCHANGED supVars
    /\ UNCHANGED filterVars
    /\ UNCHANGED encoded

\* send_transaction_with_calldata: gas_limit = estimate_gas(tx) + TX_GAS_COST
\* (estimates are far below u64::MAX, so saturating_add is plain addition).
EstimateGas ==
    /\ Submitting /\ txpc = "estimate_gas"
    /\ \E ok \in BOOLEAN :
          IF ok
          THEN /\ tx' = [tx EXCEPT !.gas_limit = 21000 + TX_GAS_COST]
               /\ txpc' = "send"
               /\ Emit("estimate_gas")
               /\ UNCHANGED <<pc, task>>
          ELSE /\ StartOnSubmitErr(<<"estimate_gas">>)
               /\ tx' = tx
    /\ UNCHANGED <<calldata, tx_hash, polls, broadcasts, start_result, store, l1>>
    /\ UNCHANGED loopVars
    /\ UNCHANGED supVars
    /\ UNCHANGED filterVars
    /\ UNCHANGED encoded

\* send_transaction_with_calldata: send_eip1559_transaction signs and broadcasts;
\* the settlement chain answers with the transaction's hash, or the call fails.
SendTransaction ==
    /\ Submitting /\ txpc = "send"
    /\ \E ok \in BOOLEAN :
          IF ok
          THEN /\ tx_hash' = l1.sent + 1
               /\ l1' = [l1 EXCEPT !.sent = @ + 1, !.pending = @ \cup {l1.sent + 1}]
               /\ broadcasts' = Append(broadcasts,
                                       [kind |-> Kind, calldata |-> calldata,
                                        nonce |-> tx.nonce, tx_hash |-> l1.sent + 1])
               /\ polls' = 0
               /\ txpc' = "poll"
               /\ Emit(Kind \o "_broadcast")
               /\ UNCHANGED <<pc, task>>
          ELSE /\ StartOnSubmitErr(<<"send_failed">>)
               /\ UNCHANGED <<tx_hash, l1, broadcasts, polls>>
    /\ UNCHANGED <<calldata, tx, start_result, store>>
    /\ UNCHANGED loopVars
    /\ UNCHANGED supVars
    /\ UNCHANGED filterVars
    /\ UNCHANGED encoded

\* What get_transaction_receipt answers for a transaction hash.
Receipt(h) == IF h \in l1.included THEN h ELSE None

\* Mutant: the polling loop never ends, receipt or not.
KeepPolling_Always(receipt) == TRUE

\* Mutant: the polling loop is left after the first poll, receipt or not.
KeepPolling_Never(receipt) == FALSE

\* The condition of the polling loops: `.is_none()`.
KeepPolling(receipt) == receipt = None

\* start after send_commitment returned Ok: the proof is the empty vector, and
\* send_proof runs up to its first await.
StartAfterCommit ==
    /\ pc' = "send_proof"
    /\ calldata' = ProofCalldata(<<>>)
    /\ txpc' = "get_gas_price"

\* Mutant: the loop starts over without the inter-cycle sleep.
StartAfterProof_NoSleep ==
    /\ pc' = "produce_block"
    /\ calldata' = calldata
    /\ txpc' = "none"

\* start after send_proof returned Ok: the inter-cycle sleep begins.
StartAfterProof ==
    /\ pc' = "sleep"
    /\ calldata' = calldata
    /\ txpc' = "none"

\* One pass of the polling loop of send_commitment / send_proof.
GetTransactionReceipt ==
    /\ Submitting /\ txpc = "poll"
    /\ \E ok \in BOOLEAN :
          IF ~ok
          THEN /\ StartOnSubmitErr(<<"receipt_err">>)
               /\ UNCHANGED <<calldata, polls>>
          ELSE LET receipt == Receipt(tx_hash)
                   event == IF receipt = None THEN "receipt_none"
                            ELSE Kind \o "_receipt"
               IN  /\ Emit(event)
                   /\ task' = task
                   /\ IF KeepPolling(receipt)
                      THEN /\ polls < MaxPolls
                           /\ polls' = polls + 1
                           /\ txpc' = "poll_sleep"
                           /\ UNCHANGED <<pc, calldata>>
                      ELSE /\ polls' = polls
                           /\ IF pc = "send_commitment"
                              THEN StartAfterCommit
                              ELSE StartAfterProof
    /\ UNCHANGED <<tx, tx_hash, broadcasts, start_result, store, l1>>
    /\ UNCHANGED loopVars
    /\ UNCHANGED supVars
    /\ UNCHANGED filterVars
    /\ UNCHANGED encoded

\* sleep(Duration::from_secs(1)) between two polls.
PollSleep ==
    /\ Submitting /\ txpc = "poll_sleep"
    /\ txpc' = "poll"
    /\ Emit("poll_sleep")
    /\ UNCHANGED <<pc, start_result, store, l1, task>>
    /\ UNCHANGED loopVars
    /\ UNCHANGED txVars
    /\ UNCHANGED supVars
    /\ UNCHANGED filterVars
    /\ UNCHANGED encoded

\* sleep(self.block_production_interval), then the loop starts over.
SleepInterval ==
    /\ pc = "sleep"
    /\ pc' = "produce_block"
    /\ Emit("sleep")
    /\ UNCHANGED <<txpc, start_result, store, l1, task>>
    /\ UNCHANGED loopVars
    /\ UNCHANGED txVars
    /\ UNCHANGED supVars
    /\ UNCHANGED filterVars
    /\ UNCHANGED encoded

(***************************************************************************)
(* Environment: the settlement chain and the two collaborator tasks.       *)
(***************************************************************************)

\* The settlement chain includes a pending transaction: its receipt exists from
\* now on and the account nonce has moved on by one.
L1Include ==
    /\ \E t \in l1.pending :
          l1' = [l1 EXCEPT !.pending = @ \ {t}, !.included = @ \cup {t},
                           !.nonce = @ + 1]
    /\ UNCHANGED <<pc, txpc, trace, start_result, store, task>>
    /\ UNCHANGED loopVars
    /\ UNCHANGED txVars
    /\ UNCHANGED supVars
    /\ UNCHANGED filterVars
    /\ UNCHANGED encoded

\* The event watcher or the proof server ends, by returning or by panicking.
TaskExit ==
    /\ \E t \in {"l1_watcher", "prover_server"}, how \in {"returned", "panicked"} :
          /\ task[t] = "running"
          /\ task' = [task EXCEPT ![t] = how]
    /\ UNCHANGED <<pc, txpc, trace, start_result, store, l1>>
    /\ UNCHANGED loopVars
    /\ UNCHANGED txVars
    /\ UNCHANGED supVars
    /\ UNCHANGED filterVars
    /\ UNCHANGED encoded

(***************************************************************************)
(* start_proposer: tokio::try_join!(l1_watcher, prover_server, proposer)   *)
(* over the three JoinHandles, then expect().                              *)
(***************************************************************************)

\* What try_join! does with a finished task's JoinHandle: Err(JoinError) of a
\* panicked task ends it at once (and expect() panics); Ok(_) of a task that
\* returned is kept, and it ends Ok only when all three are in.
TryJoinNext(t) ==
    IF task[t] = "panicked"
    THEN [sup |-> "panicked", joined |-> joined]
    ELSE [sup |-> IF joined \cup {t} = Tasks THEN "returned" ELSE "waiting",
          joined |-> joined \cup {t}]

TryJoin ==
    /\ sup = "waiting"
    /\ \E t \in Tasks \ joined :
          /\ task[t] # "running"
          /\ sup' = TryJoinNext(t).sup
          /\ joined' = TryJoinNext(t).joined
    /\ UNCHANGED <<pc, txpc, trace, start_result, store, l1, task>>
    /\ UNCHANGED loopVars
    /\ UNCHANGED txVars
    /\ UNCHANGED filterVars
    /\ UNCHANGED encoded

\* The production task, the settlement chain and the supervisor, while the two
\* collaborator tasks keep running.
LoopNext ==
    \/ ProposerInit
    \/ ForkchoiceUpdated
    \/ GetPayload
    \/ NewPayload
    \/ GetBlockByHash
    \/ ExpectStart
    \/ GetGasPrice
    \/ GetNonce
    \/ GetChainId
    \/ EstimateGas
    \/ SendTransaction
    \/ GetTransactionReceipt
    \/ PollSleep
    \/ SleepInterval
    \/ L1Include
    \/ TryJoin

\* The whole of start_proposer: the collaborator tasks may end at any moment.
Next ==
    \/ LoopNext
    \/ TaskExit

Spec == Init /\ [][Next]_vars

\* The runs in which the event watcher and the proof server never end. No action
\* of the production task reads their status, so what holds of the production
\* task's variables here holds of them in Spec.
SpecLoop == Init /\ [][LoopNext]_vars

\* Normal operation: no call has failed, the engine's hash is not zero, and the
\* store has the block of the hash the engine answered.
NormalOperation ==
    /\ pc \notin {"returned", "panicked"}
    /\ produce_result.state # "err"
    /\ produce_result.state = "ok" => produce_result.hash # H256_zero
    /\ latest_valid_hash # None => store[latest_valid_hash] # NoBlock

\* The steps of the production task under normal operation.
ProposerStep ==
    /\ \/ ProposerInit
       \/ ForkchoiceUpdated
       \/ GetPayload
       \/ NewPayload
       \/ GetBlockByHash
       \/ GetGasPrice
       \/ GetNonce
       \/ GetChainId
       \/ EstimateGas
       \/ SendTransaction
       \/ GetTransactionReceipt
       \/ PollSleep
       \/ SleepInterval
    /\ NormalOperation'

NextNormal ==
    \/ ProposerInit /\ NormalOperation'
    \/ ForkchoiceUpdated /\ NormalOperation'
    \/ GetPayload /\ NormalOperation'
    \/ NewPayload /\ NormalOperation'
    \/ GetBlockByHash /\ NormalOperation'
    \/ GetGasPrice /\ NormalOperation'
    \/ GetNonce /\ NormalOperation'
    \/ GetChainId /\ NormalOperation'
    \/ EstimateGas /\ NormalOperation'
    \/ SendTransaction /\ NormalOperation'
    \/ GetTransactionReceipt /\ NormalOperation'
    \/ PollSleep /\ NormalOperation'
    \/ SleepInterval /\ NormalOperation'
    \/ L1Include

\* The runs of the production loop under normal operation. The runtime runs a
\* spawned task whenever it can go on, and every await of the loop completes
\* (the calls answer, the sleeps end): the task's next step is taken. The
\* settlement chain includes every pending transaction.
SpecNormal ==
    /\ Init
    /\ [][NextNormal]_vars
    /\ WF_vars(ProposerStep)
    /\ WF_vars(L1Include)


(***************************************************************************)
(* The calldata builders of send_commitment and send_proof, applied to     *)
(* commitments and proofs of bounded sets.                                 *)
(***************************************************************************)

\* Commitments with bytes in each of the four low-order positions.
Commitments == {0, 1, 255, 256, 65520, 16777731, 2147483647}

\* Proofs of every length up to MaxProofLen: all zero, ascending, descending.
Proofs == {[i \in 1 .. n |-> (b * i) % 256] : n \in 0 .. MaxProofLen, b \in {0, 1, 255}}

EncodingInputs ==
    {[fn |-> "commit", commitment |-> c, proof |-> <<>>, calldata |-> <<>>] :
        c \in Commitments}
    \cup {[fn |-> "proof", commitment |-> None, proof |-> p, calldata |-> <<>>] :
            p \in Proofs}

InitCalldata ==
    /\ InitProposer
    /\ InitFilters
    /\ encoded \in EncodingInputs

\* send_commitment up to its call of send_transaction_with_calldata.
BuildCommitCalldata ==
    /\ encoded.fn = "commit" /\ encoded.calldata = <<>>
    /\ encoded' = [encoded EXCEPT !.calldata = CommitCalldata(encoded.commitment)]
    /\ UNCHANGED proposerVars
    /\ UNCHANGED filterVars

\* send_proof up to its call of send_transaction_with_calldata.
BuildProofCalldata ==
    /\ encoded.fn = "proof" /\ encoded.calldata = <<>>
    /\ encoded' = [encoded EXCEPT !.calldata = ProofCalldata(encoded.proof)]
    /\ UNCHANGED proposerVars
    /\ UNCHANGED filterVars

NextCalldata ==
    \/ BuildCommitCalldata
    \/ BuildProofCalldata

SpecCalldata == InitCalldata /\ [][NextCalldata]_vars


(***************************************************************************)
(* The RPC server's log filters (eth/filter.rs): eth_newFilter,            *)
(* eth_uninstallFilter and the cleanup job. Each handler does its one map  *)
(* operation while it holds the map's lock.                                *)
(***************************************************************************)

\* filters.lock().unwrap_or_else(..): a poisoned lock gives a new, empty map.
LockFilters == IF poisoned THEN EmptyFilters ELSE active_filters

\* Result<Option<u64>> of resolve_block_number.
Resolved(n) == [state |-> "some", number |-> n]

Unresolved == [state |-> "none", number |-> None]

ResolveErr == [state |-> "err", number |-> None]

\* What resolve_block_number can give for an identifier: a number is itself;
\* a tag is looked up in the store, which has no block for it or fails.
resolve_block_number(b) ==
    IF b.tag = "number" THEN {Resolved(b.number)} ELSE {Unresolved, ResolveErr}

\* Mutant: no range is empty.
IsEmptyRange_Never(from, to) == FALSE

\* (from..=to).is_empty()
IsEmptyRange(from, to) == from > to

HexDigit(d) ==
    <<"0", "1", "2", "3", "4", "5", "6", "7", "8", "9", "a", "b", "c", "d", "e", "f">>[d + 1]

\* format!("0x{:x}", id), for the ids of the model (below 256).
format_hex(id) ==
    "0x" \o (IF id < 16 THEN HexDigit(id) ELSE HexDigit(id \div 16) \o HexDigit(id % 16))

\* HashMap::insert: the entry of the key is set, whether or not it had one.
insert(map, id, entry) == [map EXCEPT ![id] = entry]

\* Mutant: removing a key empties the map.
remove_Clear(map, id) ==
    [map |-> EmptyFilters, removed |-> map[id] # NoEntry]

\* HashMap::remove: the map without the key, and whether the key had an entry.
remove(map, id) ==
    [map |-> [map EXCEPT ![id] = NoEntry], removed |-> map[id] # NoEntry]

\* Instant::elapsed() of a timestamp.
elapsed(timestamp) == now - timestamp

\* Mutant: a filter is kept only while its age is below the duration.
retain_StrictlyYounger(map, filter_duration) ==
    [id \in DOMAIN map |->
        IF map[id] # NoEntry /\ elapsed(map[id].timestamp) < filter_duration
        THEN map[id] ELSE NoEntry]

\* retain(|_, (filter_timestamp, _)| filter_timestamp.elapsed() <= filter_duration)
retain(map, filter_duration) ==
    [id \in DOMAIN map |->
        IF map[id] # NoEntry /\ elapsed(map[id].timestamp) <= filter_duration
        THEN map[id] ELSE NoEntry]

\* An error return of NewFilterRequest::handle: before the lock is taken.
NewFilterErr(request_data, e) ==
    /\ response' = Response("new", None, request_data, None, e)
    /\ UNCHANGED <<active_filters, poisoned, cleaned>>

\* NewFilterRequest::handle for request_data, with what the two block
\* identifiers resolve to and the id random() gives.
NewFilterHandle(request_data, from, to, id) ==
    /\ IF from.state = "err" THEN NewFilterErr(request_data, "Internal")
       ELSE IF from.state = "none" THEN NewFilterErr(request_data, "WrongParam(fromBlock)")
       ELSE IF to.state = "err" THEN NewFilterErr(request_data, "Internal")
       ELSE IF to.state = "none" THEN NewFilterErr(request_data, "WrongParam(toBlock)")
       ELSE IF IsEmptyRange(from.number, to.number)
            THEN NewFilterErr(request_data, "BadParams(Invalid block range)")
       ELSE /\ active_filters' = insert(LockFilters, id,
                                        [timestamp |-> now, filter |-> request_data])
            /\ poisoned' = FALSE
            /\ response' = Response("new", None, request_data, None, format_hex(id))
            /\ cleaned' = [cleaned EXCEPT ![id] = IF @ = "no" THEN "no" ELSE "reinstalled"]
    /\ UNCHANGED now
    /\ UNCHANGED proposerVars
    /\ UNCHANGED encoded
    /\ UNCHANGED lockVars

\* The requests of the model: two valid ranges, one with from > to, and one
\* with a tag on either side.
Requests ==
    {[from_block |-> Number(1), to_block |-> Number(2)],
     [from_block |-> Number(2), to_block |-> Number(2)],
     [from_block |-> Number(2), to_block |-> Number(1)],
     [from_block |-> Latest, to_block |-> Number(2)],
     [from_block |-> Number(1), to_block |-> Latest]}

NewFilter ==
    \E request_data \in Requests, id \in FilterIds :
        \E from \in resolve_block_number(request_data.from_block),
           to \in resolve_block_number(request_data.to_block) :
            NewFilterHandle(request_data, from, to, id)

\* DeleteFilterRequest::handle for the request's id.
DeleteFilterHandle(id) ==
    /\ active_filters' = remove(LockFilters, id).map
    /\ poisoned' = FALSE
    /\ response' = Response("uninstall", id, NoLogsFilter, None,
                            IF remove(LockFilters, id).removed THEN "true" ELSE "false")
    /\ UNCHANGED <<now, cleaned>>
    /\ UNCHANGED proposerVars
    /\ UNCHANGED encoded
    /\ UNCHANGED lockVars

DeleteFilter == \E id \in FilterIds : DeleteFilterHandle(id)

\* clean_outdated_filters(filters, filter_duration).
clean_outdated_filters(filter_duration) ==
    /\ active_filters' = retain(LockFilters, filter_duration)
    /\ poisoned' = FALSE
    /\ response' = Response("clean", None, NoLogsFilter, filter_duration, "none")
    /\ cleaned' = [id \in FilterIds |->
                      IF active_filters[id] # NoEntry /\ active_filters'[id] = NoEntry
                      THEN "cleaned" ELSE cleaned[id]]
    /\ UNCHANGED now
    /\ UNCHANGED proposerVars
    /\ UNCHANGED encoded
    /\ UNCHANGED lockVars

CleanOutdatedFilters == \E filter_duration \in 0 .. MaxTime : clean_outdated_filters(filter_duration)

\* Time passes.
Tick ==
    /\ now < MaxTime
    /\ now' = now + 1
    /\ UNCHANGED <<active_filters, poisoned, response, cleaned>>
    /\ UNCHANGED proposerVars
    /\ UNCHANGED encoded
    /\ UNCHANGED lockVars

NextFilters ==
    \/ NewFilter
    \/ DeleteFilter
    \/ CleanOutdatedFilters
    \/ Tick

SpecFilters == Init /\ [][NextFilters]_vars


(***************************************************************************)
(* The same handlers, step by step, on threads that share the map: a       *)
(* handler waits for the lock, works on the map while it holds the guard,  *)
(* and drops the guard when it returns.                                    *)
(***************************************************************************)

\* Mutant: the lock is given to whoever asks.
LockFree_Always == TRUE

\* Mutex::lock() returns when no other thread holds the guard.
LockFree == lock = "free"

\* An RPC thread enters NewFilterRequest::handle with a valid range: the
\* timestamp is taken from the clock, then the lock is asked for.
CallNewFilter(t) ==
    /\ t \in {"rpc_1", "rpc_2"}
    /\ threads[t] = Idle
    /\ threads' = [threads EXCEPT ![t] = [Idle EXCEPT !.pc = "lock", !.op = "new",
                                                     !.timestamp = now]]
    /\ UNCHANGED <<active_filters, poisoned, now, response, cleaned, lock, removals>>
    /\ UNCHANGED proposerVars
    /\ UNCHANGED encoded

\* An RPC thread enters DeleteFilterRequest::handle for an id.
CallDeleteFilter(t) ==
    /\ t \in {"rpc_1", "rpc_2"}
    /\ threads[t] = Idle
    /\ \E id \in FilterIds :
          threads' = [threads EXCEPT ![t] = [Idle EXCEPT !.pc = "lock", !.op = "uninstall",
                                                         !.id = id]]
    /\ UNCHANGED <<active_filters, poisoned, now, response, cleaned, lock, removals>>
    /\ UNCHANGED proposerVars
    /\ UNCHANGED encoded

\* The cleanup job enters clean_outdated_filters.
CallCleanup(t) ==
    /\ t = "cleanup"
    /\ threads[t] = Idle
    /\ threads' = [threads EXCEPT ![t] = [Idle EXCEPT !.pc = "lock", !.op = "clean"]]
    /\ UNCHANGED <<active_filters, poisoned, now, response, cleaned, lock, removals>>
    /\ UNCHANGED proposerVars
    /\ UNCHANGED encoded

\* filters.lock().unwrap_or_else(..): the thread gets the guard.
AcquireLock(t) ==
    /\ threads[t].pc = "lock"
    /\ LockFree
    /\ lock' = t
    /\ active_filters' = LockFilters
    /\ poisoned' = FALSE
    /\ threads' = [threads EXCEPT ![t].pc = "held"]
    /\ UNCHANGED <<now, response, cleaned, removals>>
    /\ UNCHANGED proposerVars
    /\ UNCHANGED encoded

\* NewFilterRequest::handle with the guard: the insert under the id random()
\* gave (the id depends on nothing, it is drawn here), then the return.
InsertAndReturn(t) ==
    /\ threads[t].pc = "held" /\ threads[t].op = "new"
    /\ \E id \in FilterIds :
          /\ active_filters' =
                insert(active_filters, id,
                       [timestamp |-> threads[t].timestamp,
                        filter |-> [from_block |-> Number(1), to_block |-> Number(2)]])
          /\ removals' = [removals EXCEPT ![id] = 0]
    /\ lock' = "free"
    /\ threads' = [threads EXCEPT ![t] = Idle]
    /\ UNCHANGED <<poisoned, now, response, cleaned>>
    /\ UNCHANGED proposerVars
    /\ UNCHANGED encoded

\* DeleteFilterRequest::handle with the guard, first half of remove(): the
\* key is looked up.
RemoveLookup(t) ==
    /\ threads[t].pc = "held" /\ threads[t].op = "uninstall"
    /\ threads' = [threads EXCEPT ![t].pc = "found",
                                  ![t].found = IF remove(active_filters, threads[t].id).removed
                                               THEN "true" ELSE "false"]
    /\ UNCHANGED <<active_filters, poisoned, now, response, cleaned, lock, removals>>
    /\ UNCHANGED proposerVars
    /\ UNCHANGED encoded

\* Second half of remove() and the return: the entry is taken out, Some(_)
\* gives true and None false, the guard is dropped.
RemoveAndReturn(t) ==
    /\ threads[t].pc = "found"
    /\ active_filters' = remove(active_filters, threads[t].id).map
    /\ removals' = [removals EXCEPT ![threads[t].id] =
                       IF threads[t].found = "true" THEN @ + 1 ELSE @]
    /\ lock' = "free"
    /\ threads' = [threads EXCEPT ![t] = Idle]
    /\ UNCHANGED <<poisoned, now, response, cleaned>>
    /\ UNCHANGED proposerVars
    /\ UNCHANGED encoded

\* clean_outdated_filters with the guard: retain, then the return.
RetainAndReturn(t) ==
    /\ threads[t].pc = "held" /\ threads[t].op = "clean"
    /\ \E filter_duration \in 0 .. MaxTime :
          active_filters' = retain(active_filters, filter_duration)
    /\ removals' = [id \in FilterIds |->
                       IF active_filters[id] # NoEntry /\ active_filters'[id] = NoEntry
                       THEN removals[id] + 1 ELSE removals[id]]
    /\ lock' = "free"
    /\ threads' = [threads EXCEPT ![t] = Idle]
    /\ UNCHANGED <<poisoned, now, response, cleaned>>
    /\ UNCHANGED proposerVars
    /\ UNCHANGED encoded

NextConcurrent ==
    \/ \E t \in Threads : CallNewFilter(t)
    \/ \E t \in Threads : CallDeleteFilter(t)
    \/ \E t \in Threads : CallCleanup(t)
    \/ \E t \in Threads : AcquireLock(t)
    \/ \E t \in Threads : InsertAndReturn(t)
    \/ \E t \in Threads : RemoveLookup(t)
    \/ \E t \in Threads : RemoveAndReturn(t)
    \/ \E t \in Threads : RetainAndReturn(t)
    \/ Tick

SpecConcurrent == Init /\ [][NextConcurrent]_vars


(***************************************************************************)
(* Properties.                                                             *)
(***************************************************************************)

Has(t, e) == \E i \in DOMAIN t : t[i] = e

IsPrefix(s, t) == Len(s) <= Len(t) /\ SubSeq(t, 1, Len(s)) = s

Last(t) == t[Len(t)]

\* The order of a cycle's events.
CycleOrder ==
    <<"forkchoice_updated", "get_payload", "new_payload", "get_block_by_hash",
      "commit_broadcast", "commit_receipt", "proof_broadcast", "proof_receipt", "sleep">>

\* The commit calldata of the block a hash names, computed once per hash.
ExpectedCommitCalldata[h \in Hashes] ==
    COMMIT_FUNCTION_SELECTOR \o H256Bytes(keccak(encode_to_vec(BlockOf(h))))

\* The previous cycle got Ok(h) with h non-zero from produce_block.
PrevProduced == prev.result.state = "ok" /\ prev.result.hash # H256_zero

\* The previous cycle got Ok(zero) from produce_block.
PrevZero == prev.result.state = "ok" /\ prev.result.hash = H256_zero

\* The current cycle has sent its forkchoice-update.
CycleBegun == trace # <<>>

\* C1: a proof transaction is in the cycle's broadcasts only after the commit
\* transaction of the same block (its calldata carries the commitment of the
\* block named by the head) was broadcast, its receipt was returned by a poll,
\* and the settlement chain has included it.
C1_ProofOnlyAfterConfirmedCommit ==
    \A i \in DOMAIN broadcasts :
        broadcasts[i].kind = "proof" =>
            /\ store[head_block_hash] = BlockOf(head_block_hash)
            /\ \E j \in 1 .. (i - 1) :
                  /\ broadcasts[j].kind = "commit"
                  /\ broadcasts[j].calldata = ExpectedCommitCalldata[head_block_hash]
                  /\ broadcasts[j].tx_hash \in l1.included
            /\ \A c \in DOMAIN trace :
                  trace[c] = "proof_broadcast" =>
                      \E b \in 1 .. (c - 1) :
                          /\ trace[b] = "commit_receipt"
                          /\ \E a \in 1 .. (b - 1) : trace[a] = "commit_broadcast"

\* C1 witness: a proof transaction has been broadcast.
C1_Witness == \E i \in DOMAIN broadcasts : broadcasts[i].kind = "proof"

\* C2: the events of a cycle are always a prefix of forkchoice-update,
\* get-payload, new-payload, storage read, commit broadcast, commit receipt,
\* proof broadcast, proof receipt, sleep; and when a cycle follows a cycle that
\* produced a non-zero hash, the earlier cycle has all nine, the sleep last.
C2_CycleOrder ==
    /\ IsPrefix(Visible(trace), CycleOrder)
    /\ PrevProduced => prev.trace = CycleOrder

\* C2 witness: a cycle has begun after a complete cycle.
C2_Witness == PrevProduced /\ Visible(trace) = <<"forkchoice_updated">>

\* C3 (as claimed): the head sent in forkchoice-update differs from the one of
\* the cycle before only when that cycle got both the commit and the proof
\* receipt.
C3_HeadChangesOnlyAfterReceipts ==
    (CycleBegun /\ prev.fcs # NoForkChoiceState
       /\ fork_choice_state.head_block_hash # prev.fcs.head_block_hash)
    => (Has(prev.trace, "commit_receipt") /\ Has(prev.trace, "proof_receipt"))

\* C4 (as claimed): the cycle after a zero-hash result sends the same
\* forkchoice state as the cycle that got the zero hash.
C4_ZeroKeepsForkChoiceState ==
    (PrevZero /\ CycleBegun) => fork_choice_state = prev.fcs

\* An engine call of the current cycle failed or lacked its field.
EngineCallFailed == produce_result.state = "err" /\ CycleBegun

\* C5 (as claimed): after a failed engine call the loop is still running, at
\* the top of the loop or in a later cycle, with the head it had.
C5_EngineFailureRetries ==
    EngineCallFailed =>
        /\ pc = "produce_block"
        /\ start_result = "running"
        /\ head_block_hash = fork_choice_state.head_block_hash

\* C5 (amended): after a failed engine call start has returned the error
\* FailedToProduceBlock (the task then panics on expect), the head is the one
\* the cycle was started with, and the failed call is the last event.
C5_EngineFailureEndsLoop ==
    EngineCallFailed =>
        /\ pc \in {"returned", "panicked"}
        /\ start_result = "FailedToProduceBlock"
        /\ head_block_hash = fork_choice_state.head_block_hash
        /\ IsPrefix(trace, <<"forkchoice_updated", "get_payload", "new_payload">>)
        /\ broadcasts = <<>>

\* C5 witness: the task has ended after a failed new-payload call.
C5_Witness == EngineCallFailed /\ pc = "panicked" /\ Last(trace) = "new_payload"

\* C6 (as claimed): produce_block never returns Ok(zero).
C6_NeverOkZero == produce_result.state = "ok" => produce_result.hash # H256_zero

\* C6 (amended): produce_block returns Ok exactly when new-payload reported a
\* latest valid hash, and Ok carries that hash, zero included.
C6_OkCarriesLatestValidHash ==
    /\ produce_result.state = "ok" => produce_result.hash = latest_valid_hash
    /\ latest_valid_hash # None => produce_result.state = "ok"
    /\ produce_result.state = "ok" => latest_valid_hash \in Hashes

\* C6 witness: produce_block has returned Ok(zero).
C6_Witness == produce_result = [state |-> "ok", hash |-> H256_zero]

\* A submission of the current cycle failed.
SubmissionFailed == Has(trace, "error_manual_intervention")

\* C7: once a submission has failed the production task is over: it has
\* panicked, and from then on there is no event, no broadcast and no new cycle.
C7_SubmissionFailureEndsTask ==
    [][SubmissionFailed =>
          /\ pc = "panicked" /\ pc' = "panicked"
          /\ task["proposer"] = "panicked"
          /\ trace' = trace
          /\ broadcasts' = broadcasts
          /\ cycle' = cycle
          /\ l1'.sent = l1.sent]_vars

\* C7 witness: the proof submission failed after the commit was confirmed.
C7_Witness == SubmissionFailed /\ Has(trace, "commit_receipt") /\ pc = "panicked"

\* The storage read of the current cycle gave no block.
StorageReadFailed == Has(trace, "get_block_by_hash") /\ block = NoBlock

\* C8: when the storage read gives no block, start has returned an error,
\* nothing was broadcast in the cycle, the storage read is the last event, and
\* the task's panic is what try_join! gets: it ends start_proposer.
C8_StorageFailureStopsLoop ==
    StorageReadFailed =>
        /\ pc \in {"returned", "panicked"}
        /\ start_result \in {"FailedToRetrieveBlockFromStorage", "FailedToProduceBlock"}
        /\ broadcasts = <<>>
        /\ Last(trace) = "get_block_by_hash"
        /\ "proposer" \notin joined
        /\ pc = "panicked" =>
              /\ task["proposer"] = "panicked"
              /\ TryJoinNext("proposer").sup = "panicked"

\* C8 witness: start_proposer has ended on the panic of a task whose storage
\* read found no block for the non-zero hash.
C8_Witness ==
    /\ StorageReadFailed
    /\ start_result = "FailedToProduceBlock"
    /\ sup = "panicked"
    /\ task = [t \in Tasks |-> IF t = "proposer" THEN "panicked" ELSE "running"]

\* C9 (as claimed): once try_join! has taken the completion of one task,
\* start_proposer is over.
C9_AnyExitEndsSupervisor == joined # {} => sup # "waiting"

\* C10: when a cycle follows a cycle that produced H1 # zero, that cycle
\* broadcast exactly two transactions, first the commit whose calldata is the
\* selector and keccak(encode(block(H1))), then the proof; its events are the
\* nine of a cycle with one sleep at the end; and the forkchoice-update of the
\* new cycle has head = safe = finalized = H1.
C10_EndToEnd ==
    (PrevProduced /\ CycleBegun) =>
        LET H1 == prev.result.hash IN
        /\ Len(prev.broadcasts) = 2
        /\ prev.broadcasts[1].kind = "commit"
        /\ store[H1] = BlockOf(H1)
        /\ prev.broadcasts[1].calldata = ExpectedCommitCalldata[H1]
        /\ prev.broadcasts[2].kind = "proof"
        /\ prev.trace = CycleOrder
        /\ fork_choice_state.head_block_hash = H1
        /\ fork_choice_state.safe_block_hash = H1
        /\ fork_choice_state.finalized_block_hash = H1

\* C10 witness: the new cycle builds on H1, another hash than H0.
C10_Witness ==
    /\ PrevProduced /\ CycleBegun
    /\ prev.fcs.head_block_hash # prev.result.hash
    /\ prev.fcs.head_block_hash # H256_zero


Count(t, e) == Cardinality({i \in DOMAIN t : t[i] = e})

\* The index of the first e in t (0 when there is none).
IndexOf(t, e) == IF Has(t, e) THEN CHOOSE i \in DOMAIN t : t[i] = e /\ \A j \in 1 .. (i - 1) : t[j] # e
                 ELSE 0

\* n rounds of a poll answered "no receipt" and the one-second sleep after it.
RECURSIVE PollRounds(_)
PollRounds(n) == IF n = 0 THEN <<>> ELSE <<"receipt_none", "poll_sleep">> \o PollRounds(n - 1)

\* The events from the broadcast of a submission up to the end of the trace or
\* up to the receipt of that submission, whichever is first.
PollingOf(kind) ==
    LET b == IndexOf(trace, kind \o "_broadcast")
        r == IndexOf(trace, kind \o "_receipt")
    IN  IF b = 0 THEN <<>>
        ELSE SubSeq(trace, b + 1, IF r = 0 THEN Len(trace) ELSE r)

\* The polling of a submission that has returned is N "no receipt" polls, each
\* followed by a sleep, then the poll that got the receipt; the polling of one
\* under way is such rounds, possibly with the sleep of the last still to come.
PollingConverges(kind) ==
    LET p == PollingOf(kind)
        n == Count(p, "receipt_none")
    IN  \/ p = PollRounds(n) \o <<kind \o "_receipt">>
        \/ p = PollRounds(n)
        \/ n > 0 /\ p = PollRounds(n - 1) \o <<"receipt_none">>
        \/ p = PollRounds(n) \o <<"receipt_err", "error_manual_intervention">>

\* C11: with N "no receipt" answers before the receipt, send_commitment and
\* send_proof return after exactly N + 1 polls and N sleeps, the transaction
\* polled being the one broadcast and included; a "no receipt" answer is always
\* followed by the sleep and another poll, never by an error or a return.
C11_ReceiptPollingConverges ==
    /\ PollingConverges("commit")
    /\ PollingConverges("proof")
    /\ \A kind \in {"commit", "proof"} :
          Has(trace, kind \o "_receipt") =>
              /\ Count(PollingOf(kind), "poll_sleep") = Count(PollingOf(kind), "receipt_none")
              /\ Len(PollingOf(kind)) = 2 * Count(PollingOf(kind), "receipt_none") + 1
              /\ \E i \in DOMAIN broadcasts :
                    broadcasts[i].kind = kind /\ broadcasts[i].tx_hash \in l1.included
    /\ (trace # <<>> /\ Last(trace) = "receipt_none") =>
          /\ Submitting /\ txpc = "poll_sleep"
          /\ polls = Count(PollingOf(Kind), "receipt_none")
          /\ tx_hash = broadcasts[Len(broadcasts)].tx_hash
    /\ polls <= MaxPolls

\* C11 witness: send_proof has returned after MaxPolls polls without a receipt
\* and one with it, and send_commitment after a first poll with the receipt.
C11_Witness ==
    /\ Has(trace, "proof_receipt")
    /\ Count(PollingOf("proof"), "receipt_none") = MaxPolls
    /\ Count(PollingOf("commit"), "receipt_none") = 0
    /\ MaxPolls > 0

\* The current cycle got Ok(zero) from produce_block.
ZeroProduced == produce_result = [state |-> "ok", hash |-> H256_zero]

\* C14: a cycle that got the zero hash has the three engine calls as its only
\* events, has broadcast nothing, and is back at the top of the loop; the cycle
\* before a begun cycle, if it got the zero hash, has those three events only.
C14_ZeroHashCycleDoesNothing ==
    /\ ZeroProduced =>
          /\ trace = <<"forkchoice_updated", "get_payload", "new_payload">>
          /\ broadcasts = <<>>
          /\ block = NoBlock
          /\ pc = "produce_block"
    /\ PrevZero =>
          /\ prev.trace = <<"forkchoice_updated", "get_payload", "new_payload">>
          /\ prev.broadcasts = <<>>

\* C14 witness: the cycle after a zero-hash cycle has sent its forkchoice-update.
C14_Witness == PrevZero /\ trace = <<"forkchoice_updated">>

\* The production loop has ended on one of the three fatal conditions: it ended
\* after the cycle's storage read, on the read itself or on a submission.
FatalTermination ==
    /\ pc \in {"returned", "panicked"}
    /\ Has(trace, "get_block_by_hash")

\* C15 (as claimed): when the loop has ended on a missing block, a failed
\* commit or a failed proof, the cycle's log has the manual-intervention message.
C15_FatalIsLogged == FatalTermination => Has(trace, "error_manual_intervention")

\* C16: every transaction broadcast carries the account nonce the settlement
\* chain had during its submission, which is the number of transactions of the
\* account broadcast before it (each was included before the next submission
\* began); the commit and the proof of a cycle carry different nonces.
C16_FreshNonce ==
    /\ \A i \in DOMAIN broadcasts :
          /\ broadcasts[i].nonce = broadcasts[i].tx_hash - 1
          /\ \A t \in 1 .. (broadcasts[i].tx_hash - 1) : t \in l1.included
    /\ (txpc \in {"poll", "poll_sleep"} /\ tx_hash \in l1.pending) =>
          broadcasts[Len(broadcasts)].nonce = l1.nonce
    /\ \A i, j \in DOMAIN broadcasts : i # j => broadcasts[i].nonce # broadcasts[j].nonce

\* C16 witness: the commit and the proof of a cycle after the first are both out.
C16_Witness == Len(broadcasts) = 2 /\ cycle > 1 /\ broadcasts[2].nonce = 3


\* The current cycle is complete: its events are those of a full cycle, both
\* transactions are included, and the head is the hash the engine answered.
CycleComplete ==
    /\ pc = "produce_block"
    /\ Visible(trace) = CycleOrder
    /\ Len(broadcasts) = 2
    /\ \A i \in DOMAIN broadcasts : broadcasts[i].tx_hash \in l1.included
    /\ head_block_hash = latest_valid_hash
    /\ head_block_hash # H256_zero

\* C20: under normal operation the production loop never ends, every cycle that
\* begins is completed (through both receipts and the sleep, the head being the
\* cycle's new hash), and after every cycle below the bound the next one begins.
C20_NormalOperationIsLive ==
    /\ [](pc \notin {"returned", "panicked"} /\ sup = "waiting")
    /\ \A n \in 1 .. MaxCycles : (cycle = n) ~> (cycle = n /\ CycleComplete)
    /\ \A n \in 0 .. (MaxCycles - 1) : (cycle = n) ~> (cycle = n + 1)

\* C20 witness: the last cycle within the bound is complete, after a polling
\* that had to wait for the receipt, and so was the cycle before it.
C20_Witness ==
    /\ cycle = MaxCycles
    /\ CycleComplete
    /\ Has(trace, "receipt_none")
    /\ prev.trace = CycleOrder


\* C12: the calldata send_commitment builds for commitment C is 36 bytes: the
\* commit selector, then the 32 bytes of C, most significant first.
C12_CommitCalldataLayout ==
    (encoded.fn = "commit" /\ encoded.calldata # <<>>) =>
        LET c == encoded.calldata
        IN  /\ Len(c) = 36
            /\ SubSeq(c, 1, 4) = <<241, 79, 203, 200>>
            /\ \A i \in 5 .. 36 : c[i] \in 0 .. 255
            /\ \A i \in 5 .. 32 : c[i] = 0
            /\ ((c[33] * 256 + c[34]) * 256 + c[35]) * 256 + c[36] = encoded.commitment

\* C12 witness: the calldata of a commitment with four non-zero bytes is built.
C12_Witness ==
    /\ encoded.fn = "commit" /\ encoded.calldata # <<>>
    /\ encoded.commitment = 2147483647

\* C13: the calldata send_proof builds for a proof P of L bytes is the verify
\* selector, the word 32, the word L, the bytes of P, and then zero bytes only,
\* to a total length that is a multiple of 32.
C13_ProofCalldataLayout ==
    (encoded.fn = "proof" /\ encoded.calldata # <<>>) =>
        LET c == encoded.calldata
            n == Len(encoded.proof)
        IN  /\ Len(c) >= 68 + n
            /\ SubSeq(c, 1, 4) = <<142, 118, 10, 254>>
            /\ \A i \in 5 .. 35 : c[i] = 0
            /\ c[36] = 32
            /\ \A i \in 37 .. 66 : c[i] = 0
            /\ c[67] * 256 + c[68] = n /\ c[67] \in 0 .. 255 /\ c[68] \in 0 .. 255
            /\ SubSeq(c, 69, 68 + n) = encoded.proof
            /\ \A i \in (69 + n) .. Len(c) : c[i] = 0
            /\ Len(c) % 32 = 0

\* C13 witness: the calldata of a 28-byte proof with no zero byte is built (its
\* 96 bytes before the padding are already a multiple of 32).
C13_Witness ==
    /\ encoded.fn = "proof" /\ encoded.calldata # <<>>
    /\ Len(encoded.proof) = 28
    /\ \A i \in 1 .. 28 : encoded.proof[i] # 0


\* The hex strings of the filter ids, and the filter id a returned string stands
\* for (None when it stands for none: the string is an error).
HexOfId == [id \in FilterIds |-> format_hex(id)]

IdOfHex(hex) ==
    IF \E id \in FilterIds : HexOfId[id] = hex
    THEN CHOOSE id \in FilterIds : HexOfId[id] = hex
    ELSE None

\* This step is a run of the handler op (one that changed the map, the ids the
\* cleanup removed, or what was returned last).
FilterStep(op) ==
    /\ response'.op = op
    /\ <<active_filters, response, cleaned>>' # <<active_filters, response, cleaned>>

\* C17: eth_uninstallFilter for an id in the map removes that entry and returns
\* true; for an id not in the map it returns false; in both cases every other
\* entry is as it was (so the map is unchanged when the id was not in it).
C17_UninstallRemovesOnlyThatFilter ==
    [][FilterStep("uninstall") =>
          LET id == response'.id
          IN  /\ response'.result = IF active_filters[id] # NoEntry THEN "true" ELSE "false"
              /\ active_filters'[id] = NoEntry
              /\ \A other \in FilterIds \ {id} :
                    active_filters'[other] = active_filters[other]
              /\ active_filters[id] = NoEntry => active_filters' = active_filters]_vars

\* C17 witness: an uninstall has returned true and another filter is still in
\* the map.
C17_Witness ==
    /\ response.op = "uninstall" /\ response.result = "true"
    /\ active_filters[response.id] = NoEntry
    /\ \E other \in FilterIds : active_filters[other] # NoEntry

\* A request's block range is valid: both identifiers resolve, and from <= to.
ValidRange(request_data) ==
    /\ request_data.from_block.tag = "number"
    /\ request_data.to_block.tag = "number"
    /\ request_data.from_block.number <= request_data.to_block.number

\* C18: eth_newFilter with a valid range returns an id and the map has the
\* request's filter under that id; with an identifier that does not resolve or
\* with from > to it returns an error and the map is unchanged.
C18_NewFilterStoresOrFails ==
    [][FilterStep("new") =>
          LET id == IdOfHex(response'.result)
          IN  IF ValidRange(response'.request_data)
              THEN /\ id \in FilterIds
                   /\ active_filters'[id] =
                         [timestamp |-> now, filter |-> response'.request_data]
              ELSE /\ id = None
                   /\ active_filters' = active_filters]_vars

\* C18 witness: a request with from > to was refused while a filter of an
\* earlier request is in the map.
C18_Witness ==
    /\ response.op = "new" /\ response.result = "BadParams(Invalid block range)"
    /\ response.request_data = [from_block |-> Number(2), to_block |-> Number(1)]
    /\ \E id \in FilterIds :
          active_filters[id] # NoEntry /\ active_filters[id].filter.from_block = Number(1)

\* What the cleanup does to the map: the entries older than the duration are
\* removed, every other entry is kept as it is.
CleanupRemovesExactlyTheOutdated ==
    FilterStep("clean") =>
        \A id \in FilterIds :
            active_filters'[id] =
                IF active_filters[id] # NoEntry
                   /\ now - active_filters[id].timestamp > response'.filter_duration
                THEN NoEntry
                ELSE active_filters[id]

\* C19 (as claimed): the cleanup removes exactly the outdated filters, and
\* once the cleanup has removed a filter, eth_uninstallFilter for its id
\* returns false.
C19_CleanedIdNeverUninstalls ==
    [][/\ CleanupRemovesExactlyTheOutdated
       /\ (FilterStep("uninstall") /\ cleaned[response'.id] # "no") =>
             response'.result = "false"]_vars

\* C19 (amended): the cleanup removes exactly the outdated filters, and once
\* the cleanup has removed a filter, eth_uninstallFilter for its id returns
\* false for as long as no eth_newFilter has drawn that id again.
C19_CleanedFilterIsGone ==
    [][/\ CleanupRemovesExactlyTheOutdated
       /\ (FilterStep("uninstall") /\ cleaned[response'.id] = "cleaned") =>
             response'.result = "false"]_vars

\* C19 witness: the cleanup has removed one filter and kept another, and the
\* uninstall of the removed one has returned false.
C19_Witness ==
    /\ response.op = "uninstall" /\ response.result = "false"
    /\ cleaned[response.id] = "cleaned"
    /\ \E other \in FilterIds : active_filters[other] # NoEntry /\ cleaned[other] = "no"


\* The four calls send_transaction_with_calldata makes before it broadcasts.
RpcOrder == <<"get_gas_price", "get_nonce", "get_chain_id", "estimate_gas">>

\* The events of the cycle's submission of a kind, from its first call on: the
\* commit's begin after the storage read and end with the commit's receipt, the
\* proof's begin after the commit's receipt.
SubmissionOf(kind) ==
    LET from == IndexOf(trace, IF kind = "commit" THEN "get_block_by_hash" ELSE "commit_receipt")
        r == IndexOf(trace, "commit_receipt")
        to == IF kind = "commit" /\ r # 0 THEN r ELSE Len(trace)
    IN  IF from = 0 THEN <<>> ELSE SubSeq(trace, from + 1, to)

\* The calls of a submission are in order: what has happened of it is the
\* beginning of gas price, nonce, chain id, gas estimate, broadcast (with the
\* polling after it), or it is some of the four calls, the last of which
\* failed, and then nothing of that kind is broadcast, or the four calls and
\* the failed broadcast.
SubmissionInOrder(kind) ==
    LET s == SubmissionOf(kind)
        calls == RpcOrder \o <<kind \o "_broadcast">>
    IN  \/ IsPrefix(s, calls)
        \/ IsPrefix(calls, s)
        \/ \E k \in 1 .. 4 :
              /\ s = SubSeq(RpcOrder, 1, k) \o <<"error_manual_intervention">>
              /\ \A i \in DOMAIN broadcasts : broadcasts[i].kind # kind
              /\ pc = "panicked"
        \/ /\ s = RpcOrder \o <<"send_failed", "error_manual_intervention">>
           /\ \A i \in DOMAIN broadcasts : broadcasts[i].kind # kind

\* C21: in each submission the calls are gas price, nonce, chain id, gas
\* estimate, broadcast, in that order; when one of the first four fails the
\* submission ends in an error and no transaction of it is broadcast: the
\* broadcasts are those the trace has, and the chain was sent nothing else.
C21_RpcOrderAndNoBroadcastOnFailure ==
    /\ SubmissionInOrder("commit")
    /\ SubmissionInOrder("proof")
    /\ \A kind \in {"commit", "proof"} :
          Count(trace, kind \o "_broadcast")
              = Cardinality({i \in DOMAIN broadcasts : broadcasts[i].kind = kind})
    /\ Cardinality(l1.pending \cup l1.included) = l1.sent

\* C21 witness: the proof's submission has failed on the chain id, after the
\* gas price and the nonce were read; the commit is the cycle's only broadcast.
C21_Witness ==
    /\ SubmissionOf("proof") = <<"get_gas_price", "get_nonce", "get_chain_id",
                                 "error_manual_intervention">>
    /\ Len(broadcasts) = 1
    /\ pc = "panicked"


\* The zero bytes send_proof has put after the proof bytes.
PaddingLen == Len(encoded.calldata) - (68 + Len(encoded.proof))

\* C22 (as claimed): the padding of the proof calldata is 0 to 31 zero bytes,
\* and none when selector, two words and proof are already a multiple of 32.
C22_PaddingBelow32 ==
    (encoded.fn = "proof" /\ encoded.calldata # <<>>) =>
        /\ PaddingLen \in 0 .. 31
        /\ (68 + Len(encoded.proof)) % 32 = 0 => PaddingLen = 0

\* The receipt call failed while send_commitment was polling.
CommitPollingFailed ==
    /\ Has(trace, "receipt_err")
    /\ ~Has(trace, "commit_receipt")

\* C23: when get_transaction_receipt fails during the commit's polling, the
\* production task is over in that cycle: the error is the cycle's last event
\* but for its log line, the commit is the only broadcast and has no receipt
\* event, there is no proof, and from then on no event, broadcast or cycle.
C23_ReceiptErrorEndsLoop ==
    [][/\ CommitPollingFailed' =>
             /\ pc' = "panicked" /\ task'["proposer"] = "panicked"
             /\ SubSeq(trace', Len(trace') - 2, Len(trace'))
                   = <<"commit_broadcast", "receipt_err", "error_manual_intervention">>
                \/ SubSeq(trace', Len(trace') - 2, Len(trace'))
                   = <<"poll_sleep", "receipt_err", "error_manual_intervention">>
             /\ Len(broadcasts') = 1 /\ broadcasts'[1].kind = "commit"
             /\ ~Has(trace', "proof_broadcast")
       /\ CommitPollingFailed =>
             /\ trace' = trace
             /\ broadcasts' = broadcasts
             /\ cycle' = cycle
             /\ l1'.sent = l1.sent
             /\ pc' = pc]_vars

\* C23 witness: the receipt call failed on the second poll of the commit, and
\* the chain has included the commit all the same.
C23_Witness ==
    /\ CommitPollingFailed
    /\ Has(trace, "poll_sleep")
    /\ broadcasts[1].tx_hash \in l1.included

\* The receipt events the proposer has had for the cycle's broadcasts.
ReceiptsSeen == Count(trace, "commit_receipt") + Count(trace, "proof_receipt")

\* C24: at most one broadcast transaction is without its receipt: the chain has
\* at most one pending, the one being polled; the proof is broadcast after the
\* commit's receipt; and a cycle begins after both receipts of the one before.
C24_OneUnconfirmedTransaction ==
    /\ Len(broadcasts) - ReceiptsSeen \in {0, 1}
    /\ Cardinality(l1.pending) <= 1
    /\ l1.pending \subseteq {tx_hash}
    /\ Has(trace, "proof_broadcast") =>
          /\ Has(trace, "commit_receipt")
          /\ IndexOf(trace, "commit_receipt") < IndexOf(trace, "proof_broadcast")
          /\ broadcasts[1].tx_hash \in l1.included
    /\ (CycleBegun /\ prev.broadcasts # <<>>) =>
          /\ Len(prev.broadcasts) = 2
          /\ Has(prev.trace, "commit_receipt") /\ Has(prev.trace, "proof_receipt")
          /\ \A i \in DOMAIN prev.broadcasts : prev.broadcasts[i].tx_hash \in l1.included

\* C24 witness: the commit of a second cycle is broadcast and not yet included,
\* after a first cycle with two transactions.
C24_Witness ==
    /\ Len(prev.broadcasts) = 2
    /\ Len(broadcasts) = 1
    /\ tx_hash \in l1.pending

\* The ids with a filter in the map.
ActiveIds(map) == {id \in FilterIds : map[id] # NoEntry}

\* C25 (as claimed): a successful eth_newFilter leaves one more filter in the
\* map, and every filter that was in it is still there, unchanged.
C25_NewFilterAddsOne ==
    [][(FilterStep("new") /\ IdOfHex(response'.result) # None) =>
          /\ Cardinality(ActiveIds(active_filters')) = Cardinality(ActiveIds(active_filters)) + 1
          /\ \A id \in ActiveIds(active_filters) :
                active_filters'[id] = active_filters[id]]_vars


\* The threads that are between getting the guard and dropping it.
Holders == {t \in Threads : threads[t].pc \in {"held", "found"}}

\* C26: the handlers take effect one at a time: at most one thread is inside
\* its guarded part, and it is the lock's holder; an uninstall returns true
\* exactly when its id is in the map as it removes it under the lock, and it
\* leaves the other entries alone; and no filter is removed twice, by two
\* uninstalls or by an uninstall and the cleanup.
C26_HandlersAreAtomic ==
    [][/\ Cardinality(Holders') <= 1
       /\ \A t \in Holders' : lock' = t
       /\ \A id \in FilterIds : removals'[id] <= 1
       /\ \A t \in Threads :
             (threads[t].pc = "found" /\ threads'[t].pc = "idle") =>
                 /\ lock = t
                 /\ threads[t].found
                       = IF active_filters[threads[t].id] # NoEntry THEN "true" ELSE "false"
                 /\ active_filters'[threads[t].id] = NoEntry
                 /\ \A other \in FilterIds \ {threads[t].id} :
                       active_filters'[other] = active_filters[other]]_vars

\* C26 witness: an uninstall holds the lock and has found nothing under its id,
\* whose filter was removed before, while the other uninstall of that id and
\* the cleanup wait for the lock.
C26_Witness ==
    /\ threads["rpc_1"].pc = "found" /\ threads["rpc_1"].found = "false"
    /\ removals[threads["rpc_1"].id] = 1
    /\ threads["rpc_2"].pc = "lock" /\ threads["rpc_2"].op = "uninstall"
    /\ threads["rpc_2"].id = threads["rpc_1"].id
    /\ threads["cleanup"].pc = "lock"

====
